---- MODULE Spec2Model ----
(***************************************************************************)
(* A model of evolve_text.py: the memoized Levenshtein scorer, the Message *)
(* genome, the genetic operators mate_text and mutate_text, and the        *)
(* generational loop that evolve_string runs through DEAP's eaSimple       *)
(* (selTournament, varAnd, evaluation of the invalid individuals, the      *)
(* statistics logbook).                                                    *)
(*                                                                         *)
(* Strings and Messages are sequences of one-character strings.  Python    *)
(* objects that are mutated in place (the Messages) live in `heap`, and    *)
(* the lists `pop` and `off` hold references into it, so that aliasing is  *)
(* visible.  Every draw from the `random` module is a nondeterministic     *)
(* choice over the values the call can return.                             *)
(***************************************************************************)
EXTENDS Integers, Sequences, FiniteSets, TLC

\* ------------------------------------------------------------------ bounds
\* Longest string handed to the scorer and to the operators on their own.
MaxStrLen == 3
\* Longest Message an insertion is still applied to (a Message's length has
\* no bound in the source).
MaxGenomeLen == 2
\* Number of levenshtein_distance calls made on one memo.
MaxCalls == 2
\* Largest population size, toolbox.population(n=300) in the source.
N == 2
\* Number of generations, ngen=500 in the source.
NGEN == 2
\* Length of a new random Message: min_length=4 and max_length=30 in the
\* source.
MinLength == 1
MaxLength == 1
\* Length of the goal text handed to evolve_string.
GoalLen == 2
\* tools.selTournament's tournsize.
TOURNSIZE == 3

\* The alphabet, VALID_CHARS = ascii_uppercase + " " in the source, cut to
\* two symbols.
VALID_CHARS == {"A", "B"}

\* A symbol outside the alphabet (used to express what the code never draws).
OtherChar == "a"

StringsUpTo(n) == UNION {[1..k -> VALID_CHARS] : k \in 0..n}

\* ------------------------------------------------------------------ state
VARIABLES
    memo,      \* the module-level dict `memo`: key string -> distance
    pc,        \* position of the program
    ncalls,    \* scorer calls made so far on this memo
    call,      \* the last scorer call: its arguments and its result
    heap,      \* the Message objects: reference -> Message
    last,      \* the last operator call made on its own: draws, arguments, outcome
    goal,      \* evolve_string's argument `text`
    pop,       \* eaSimple's list `population`: references
    off,       \* eaSimple's list `offspring`: references
    aspirants, \* selTournament's `aspirants` of each slot of the last selection
    sel,       \* varAnd's parameter `population`: the selected individuals
    gen,       \* eaSimple's generation counter
    idx,       \* varAnd's loop index (1-based)
    nevals,    \* len(invalid_ind) of the last evaluation
    logbook,   \* the Logbook: one record per generation
    run,       \* which call of evolve_string in this process: 1 or 2
    hist,      \* first call: the individuals before and after each evaluation
    log1       \* the Logbook the first call returned

eavars == <<goal, pop, off, aspirants, sel, gen, idx, nevals, logbook, run,
            hist, log1>>
vars == <<memo, pc, ncalls, call, heap, last, goal, pop, off, aspirants, sel,
          gen, idx, nevals, logbook, run, hist, log1>>

\* ----------------------------------------------------------- list helpers
Last(s) == s[Len(s)]
Front(s) == SubSeq(s, 1, Len(s) - 1)

\* Python's s[a:b] for 0 <= a, b (indices clipped to the length).
Slice(s, a, b) ==
    LET hi == IF b > Len(s) THEN Len(s) ELSE b
    IN  IF a >= hi THEN <<>> ELSE SubSeq(s, a + 1, hi)

\* Python's s[a:].
SliceFrom(s, a) == Slice(s, a, Len(s))

Min2(x, y) == IF x <= y THEN x ELSE y

\* min([x, y, z])
Min3(x, y, z) == Min2(x, Min2(y, z))

\* ------------------------------------------------------ the edit distance
EmptyMemo == [k \in {} |-> 0]

\* memo[key] = res
MemoPut(m, key, res) ==
    [k \in (DOMAIN m) \cup {key} |-> IF k = key THEN res ELSE m[k]]

\* A scorer that never looks its key up: it computes every distance anew and
\* stores it, also over the value an earlier pair left under the same key.
RECURSIVE levenshtein_distance_no_lookup(_, _, _)
levenshtein_distance_no_lookup(string, goal_text, m) ==
    LET key == string \o goal_text
    IN  IF string = <<>> THEN [res |-> Len(goal_text), memo |-> m]
        ELSE IF goal_text = <<>> THEN [res |-> Len(string), memo |-> m]
        ELSE LET cost == IF Last(string) = Last(goal_text) THEN 0 ELSE 1
                 r1 == levenshtein_distance_no_lookup(Front(string), goal_text, m)
                 r2 == levenshtein_distance_no_lookup(string, Front(goal_text),
                                                      r1.memo)
                 r3 == levenshtein_distance_no_lookup(Front(string),
                                                      Front(goal_text), r2.memo)
                 res == Min3(r1.res + 1, r2.res + 1, r3.res + cost)
             IN  [res |-> res, memo |-> MemoPut(r3.memo, key, res)]

\* levenshtein_distance(string, goal_text) run on memo m: the value it
\* returns and the memo it leaves.  The key is the concatenation
\* string+goal_text, looked up before the base cases; the three recursive
\* calls run left to right, each on the memo the previous one left.
RECURSIVE levenshtein_distance(_, _, _)
levenshtein_distance(string, goal_text, m) ==
    LET key == string \o goal_text
    IN  IF key \in DOMAIN m THEN [res |-> m[key], memo |-> m]
        ELSE IF string = <<>> THEN [res |-> Len(goal_text), memo |-> m]
        ELSE IF goal_text = <<>> THEN [res |-> Len(string), memo |-> m]
        ELSE LET cost == IF Last(string) = Last(goal_text) THEN 0 ELSE 1
                 r1 == levenshtein_distance(Front(string), goal_text, m)
                 r2 == levenshtein_distance(string, Front(goal_text), r1.memo)
                 r3 == levenshtein_distance(Front(string), Front(goal_text),
                                            r2.memo)
                 res == Min3(r1.res + 1, r2.res + 1, r3.res + cost)
             IN  [res |-> res, memo |-> MemoPut(r3.memo, key, res)]

\* The edit distance itself: the recurrence d(i,j) without a memo, on the
\* prefixes of a and b (the reference the scorer is compared with).
RECURSIVE EditDistance(_, _)
EditDistance(a, b) ==
    IF a = <<>> THEN Len(b)
    ELSE IF b = <<>> THEN Len(a)
    ELSE IF Last(a) = Last(b) THEN EditDistance(Front(a), Front(b))
    ELSE 1 + Min3(EditDistance(Front(a), b), EditDistance(a, Front(b)),
                  EditDistance(Front(a), Front(b)))

NoCall == [a |-> <<>>, b |-> <<>>, res |-> 0]

\* -------------------------------------------------------------- Messages
\* A Message: the list's characters and its fitness attribute.  `valid` is
\* fitness.valid, `values` the distance held when valid; `scored` is the
\* text that distance was computed from.
NewMessage(chars) ==
    [chars |-> chars, valid |-> FALSE, values |-> 0, scored |-> <<>>]

EmptyHeap == [r \in {} |-> NewMessage(<<>>)]

\* Message.get_text(): "".join(self)
get_text(message) == message.chars

SetChars(h, r, chars) == [h EXCEPT ![r].chars = chars]

\* A varAnd that forgets `del ind.fitness.values`.
DelFitness_Kept(h, r) == h

\* del ind.fitness.values
DelFitness(h, r) ==
    [h EXCEPT ![r].valid = FALSE, ![r].values = 0, ![r].scored = <<>>]

\* random.randint(a, b): the values it can return (none when b < a, where the
\* call raises ValueError).
RandInt(a, b) == a..b

\* list.insert(location, x) for 0 <= location <= len
InsertAt(s, location, x) ==
    Slice(s, 0, location) \o <<x>> \o SliceFrom(s, location)

\* del s[location] for 0 <= location < len
DeleteAt(s, location) == Slice(s, 0, location) \o SliceFrom(s, location + 1)

\* --------------------------------------------------------------- mate_text
\* A mate_text in which each Message keeps its own tail beyond end_point and
\* only the window [start_point, end_point) is exchanged.
mate_text_own_tail(h, r1, r2, start_point, end_point) ==
    LET str1_swap == Slice(h[r1].chars, start_point, end_point)
        str1_end == SliceFrom(h[r1].chars, end_point)
        str2_swap == Slice(h[r2].chars, start_point, end_point)
        str2_end == SliceFrom(h[r2].chars, end_point)
        h1 == SetChars(h, r1, Slice(h[r1].chars, 0, start_point)
                              \o str2_swap \o str1_end)
    IN  SetChars(h1, r2, Slice(h1[r2].chars, 0, start_point)
                         \o str1_swap \o str2_end)

\* A mate_text that takes str1's slices only after str1 has been rewritten.
mate_text_late_slices(h, r1, r2, start_point, end_point) ==
    LET str2_swap == Slice(h[r2].chars, start_point, end_point)
        str2_end == SliceFrom(h[r2].chars, end_point)
        h1 == SetChars(h, r1, Slice(h[r1].chars, 0, start_point)
                              \o str2_swap \o str2_end)
        str1_swap == Slice(h1[r1].chars, start_point, end_point)
        str1_end == SliceFrom(h1[r1].chars, end_point)
    IN  SetChars(h1, r2, Slice(h1[r2].chars, 0, start_point)
                         \o str1_swap \o str1_end)

\* A mate_text that returns at once when the shorter Message is empty.
mate_text_skip_empty(h, r1, r2, start_point, end_point) ==
    IF Len(h[r1].chars) = 0 \/ Len(h[r2].chars) = 0 THEN h
    ELSE LET str1_swap == Slice(h[r1].chars, start_point, end_point)
             str1_end == SliceFrom(h[r1].chars, end_point)
             str2_swap == Slice(h[r2].chars, start_point, end_point)
             str2_end == SliceFrom(h[r2].chars, end_point)
             h1 == SetChars(h, r1, Slice(h[r1].chars, 0, start_point)
                                   \o str2_swap \o str2_end)
         IN  SetChars(h1, r2, Slice(h1[r2].chars, 0, start_point)
                              \o str1_swap \o str1_end)

\* mate_text(str1, str2) with its two draws, on the Messages r1 and r2 of
\* heap h, statement by statement: the four slices are copies taken before
\* either list is cut.
mate_text(h, r1, r2, start_point, end_point) ==
    LET str1_swap == Slice(h[r1].chars, start_point, end_point)
        str1_end == SliceFrom(h[r1].chars, end_point)
        str2_swap == Slice(h[r2].chars, start_point, end_point)
        str2_end == SliceFrom(h[r2].chars, end_point)
        h1 == SetChars(h, r1, Slice(h[r1].chars, 0, start_point)
                              \o str2_swap \o str2_end)
    IN  SetChars(h1, r2, Slice(h1[r2].chars, 0, start_point)
                         \o str1_swap \o str1_end)

smallest_len(h, r1, r2) == Min2(Len(h[r1].chars), Len(h[r2].chars))

\* ------------------------------------------------------------- mutate_text
Ok(chars) == [fault |-> FALSE, chars |-> chars]
\* random.randint(0, -1) raised ValueError: the call ends there, the list as
\* the earlier steps left it.
Fault(chars) == [fault |-> TRUE, chars |-> chars]

AnyChar == CHOOSE c \in VALID_CHARS : TRUE

\* A draw from a larger alphabet than VALID_CHARS.
RandomChars_Wider == VALID_CHARS \cup {OtherChar}

\* random.choice(VALID_CHARS): the symbols it can return.
RandomChars == VALID_CHARS

\* The draws of a mutate_text call in which nothing fires.
NoDraws ==
    [ins |-> FALSE, iloc |-> 0, ich |-> AnyChar, del |-> FALSE, dloc |-> 0,
     sub |-> FALSE, sloc |-> 0, sch |-> AnyChar]

\* if random.random() < prob_ins: insert a random character at a random
\* location of the Message
InsertionStep(s, d) ==
    IF s.fault \/ ~d.ins THEN s
    ELSE IF RandInt(0, Len(s.chars) - 1) = {} THEN Fault(s.chars)
    ELSE Ok(InsertAt(s.chars, d.iloc, d.ich))

\* if random.random() < prob_del: delete the character at a random location
DeletionStep(s, d) ==
    IF s.fault \/ ~d.del THEN s
    ELSE IF RandInt(0, Len(s.chars) - 1) = {} THEN Fault(s.chars)
    ELSE Ok(DeleteAt(s.chars, d.dloc))

\* if random.random() < prob_sub: delete the character at a random location
\* and insert a random character there
SubstitutionStep(s, d) ==
    IF s.fault \/ ~d.sub THEN s
    ELSE IF RandInt(0, Len(s.chars) - 1) = {} THEN Fault(s.chars)
    ELSE Ok(InsertAt(DeleteAt(s.chars, d.sloc), d.sloc, d.sch))

\* mutate_text(message) under the draws d: insertion, then deletion, then
\* substitution, each on the list as the step before left it.
mutate_text(chars, d) ==
    SubstitutionStep(DeletionStep(InsertionStep(Ok(chars), d), d), d)

\* The draws one step of mutate_text can make on the list s.chars: not
\* firing, or firing with a location in randint's range and (withChar) a
\* symbol.  A draw that is not made is fixed to 0 / AnyChar; on an empty list
\* the step fires and randint raises; after a raise nothing is drawn.
StepDraws(s, withChar, allowed) ==
    {[f |-> FALSE, loc |-> 0, ch |-> AnyChar]} \cup
    (IF s.fault \/ ~allowed THEN {}
     ELSE IF RandInt(0, Len(s.chars) - 1) = {}
          THEN {[f |-> TRUE, loc |-> 0, ch |-> AnyChar]}
     ELSE {[f |-> TRUE, loc |-> l, ch |-> c] :
              l \in RandInt(0, Len(s.chars) - 1),
              c \in (IF withChar THEN RandomChars ELSE {AnyChar})})

Draws(i, dl, sb) ==
    [ins |-> i.f, iloc |-> i.loc, ich |-> i.ch, del |-> dl.f, dloc |-> dl.loc,
     sub |-> sb.f, sloc |-> sb.loc, sch |-> sb.ch]

\* The draws a mutate_text call on `chars` can make, each step drawing on the
\* list as the step before left it.  An insertion fires only below
\* MaxGenomeLen.
MutateDraws(chars) ==
    UNION {UNION {{Draws(i, dl, sb) :
                     sb \in StepDraws(
                         DeletionStep(InsertionStep(Ok(chars), Draws(i, dl, dl)),
                                      Draws(i, dl, dl)), TRUE, TRUE)} :
                  dl \in StepDraws(InsertionStep(Ok(chars), Draws(i, i, i)),
                                   FALSE, TRUE)} :
           i \in StepDraws(Ok(chars), TRUE, Len(chars) < MaxGenomeLen)}

\* A probability is held in hundredths; prob_ins=0.25, prob_del=0.25 and
\* prob_sub=0.25 are mutate_text's defaults.
DefaultProb == 25

\* The values mutate_text is called with for a probability: one below 0,
\* the default, and one above 1.
Probabilities == {-50, DefaultProb, 150}

\* random.random() < prob, random.random() being in [0.0, 1.0): what the
\* test can yield.
Fires(prob) ==
    IF prob <= 0 THEN {FALSE} ELSE IF prob >= 100 THEN {TRUE} ELSE {TRUE, FALSE}

\* The draws a call mutate_text(message, prob_ins, prob_del, prob_sub) can
\* make.
MutateDrawsWith(chars, prob_ins, prob_del, prob_sub) ==
    {d \in MutateDraws(chars) :
        /\ d.ins \in Fires(prob_ins)
        /\ (d.del \in Fires(prob_del) \/ InsertionStep(Ok(chars), d).fault)
        /\ (d.sub \in Fires(prob_sub)
               \/ DeletionStep(InsertionStep(Ok(chars), d), d).fault)}

\* What `last` holds: the operator, the Message it was called on, its draws,
\* the probabilities it was given, the characters of the Messages before the
\* call, whether it raised.
NoOp ==
    [op |-> "none", r |-> 0, start |-> 0, end |-> 0, d |-> NoDraws,
     probs |-> [ins |-> DefaultProb, del |-> DefaultProb, sub |-> DefaultProb],
     pre1 |-> <<>>, pre2 |-> <<>>, fault |-> FALSE]

NoEngine ==
    /\ goal = <<>>
    /\ pop = <<>>
    /\ off = <<>>
    /\ aspirants = <<>>
    /\ sel = <<>>
    /\ gen = 0
    /\ idx = 0
    /\ nevals = 0
    /\ logbook = <<>>
    /\ run = 1
    /\ hist = <<>>
    /\ log1 = <<>>

NoHeapVars == heap = EmptyHeap /\ last = NoOp /\ NoEngine

\* ------------------------------------------- the scorer called on its own
LevInit ==
    /\ memo = EmptyMemo
    /\ pc = "lev"
    /\ ncalls = 0
    /\ call = NoCall
    /\ NoHeapVars

\* One call levenshtein_distance(a, b) from outside, on the shared memo.
LevCall(a, b) ==
    /\ pc = "lev"
    /\ ncalls < MaxCalls
    /\ LET r == levenshtein_distance(a, b, memo)
       IN  /\ memo' = r.memo
           /\ call' = [a |-> a, b |-> b, res |-> r.res]
    /\ ncalls' = ncalls + 1
    /\ UNCHANGED <<pc, heap, last>>
    /\ UNCHANGED eavars

LevNext == \E a \in StringsUpTo(MaxStrLen), b \in StringsUpTo(MaxStrLen) : LevCall(a, b)

SpecLev == LevInit /\ [][LevNext]_vars

\* C1: every call returns the true edit distance of its two arguments,
\* whatever calls were made on the memo before.
C1_ReturnsEditDistance ==
    (pc = "lev" /\ ncalls > 0) => call.res = EditDistance(call.a, call.b)

\* C6: a call with twice the same string returns 0, whatever calls were made
\* on the memo before.
C6_DistanceToSelfIsZero ==
    (pc = "lev" /\ ncalls > 0 /\ call.a = call.b) => call.res = 0

\* C11: the distance is symmetric.  A call levenshtein_distance(b, a) made
\* right after a call levenshtein_distance(a, b) returns what that call
\* returned, whatever calls were made on the memo before.
C11_DistanceSymmetric ==
    [][(pc = "lev" /\ ncalls > 0 /\ call'.a = call.b /\ call'.b = call.a)
          => call'.res = call.res]_vars

\* C15: the memo only grows.  A call removes no key, and the value under a
\* key the memo already holds stays what it is.
C15_MemoOnlyGrows ==
    [][pc = "lev" =>
          \A k \in DOMAIN memo : k \in DOMAIN memo' /\ memo'[k] = memo[k]]_vars

\* A second call whose key was stored by an earlier call for another pair of
\* strings: the memo still holds the earlier value, which is not the
\* distance of this call's arguments, next to the keys the calls added.
C15_Witness ==
    /\ pc = "lev"
    /\ ncalls = MaxCalls
    /\ (call.a \o call.b) \in DOMAIN memo
    /\ memo[call.a \o call.b] = call.res
    /\ call.res # EditDistance(call.a, call.b)
    /\ Cardinality(DOMAIN memo) > 2

\* ------------------------------------------ the operators called on their own
OpsInit ==
    /\ memo = EmptyMemo
    /\ pc = "ops"
    /\ ncalls = 0
    /\ call = NoCall
    /\ \E c1 \in StringsUpTo(MaxStrLen), c2 \in StringsUpTo(MaxStrLen) :
          heap = [r \in {1, 2} |-> NewMessage(IF r = 1 THEN c1 ELSE c2)]
    /\ last = NoOp
    /\ NoEngine

\* mate_text(str1, str2) on the two Messages.
OpMate ==
    /\ pc = "ops"
    /\ \E start_point \in RandInt(0, smallest_len(heap, 1, 2)) :
       \E end_point \in RandInt(start_point, smallest_len(heap, 1, 2)) :
          /\ heap' = mate_text(heap, 1, 2, start_point, end_point)
          /\ last' = [NoOp EXCEPT !.op = "mate", !.start = start_point,
                                  !.end = end_point, !.pre1 = heap[1].chars,
                                  !.pre2 = heap[2].chars]
    /\ UNCHANGED <<memo, pc, ncalls, call>>
    /\ UNCHANGED eavars

\* mutate_text(message) on one of the two Messages.
OpMutate(r) ==
    /\ pc = "ops"
    /\ \E d \in MutateDraws(heap[r].chars) :
          LET out == mutate_text(heap[r].chars, d)
          IN  /\ heap' = SetChars(heap, r, out.chars)
              /\ last' = [NoOp EXCEPT !.op = "mutate", !.r = r, !.d = d,
                                      !.pre1 = heap[r].chars,
                                      !.fault = out.fault]
    /\ UNCHANGED <<memo, pc, ncalls, call>>
    /\ UNCHANGED eavars

OpsNext == OpMate \/ \E r \in {1, 2} : OpMutate(r)

SpecOps == OpsInit /\ [][OpsNext]_vars

\* C2: mutate_text never raises, whatever the Message (also an empty one or
\* one of a single character) and whichever of its three steps fire.
C2_MutateNeverRaises ==
    (pc = "ops" /\ last.op = "mutate") => ~last.fault

\* C5: after mate_text on two distinct Messages with the points start <= end
\* <= min of the lengths, each Message is its own old content before start
\* followed by the other's old content from start on, and the two lengths
\* are exchanged.
C5_MateExchangesTails ==
    (pc = "ops" /\ last.op = "mate") =>
        LET g1 == heap[1].chars
            g2 == heap[2].chars
        IN  /\ Len(g1) = Len(last.pre2)
            /\ Len(g2) = Len(last.pre1)
            /\ \A i \in 1..Len(g1) :
                  g1[i] = IF i <= last.start THEN last.pre1[i] ELSE last.pre2[i]
            /\ \A i \in 1..Len(g2) :
                  g2[i] = IF i <= last.start THEN last.pre2[i] ELSE last.pre1[i]

\* A mating of Messages of lengths 2 and 3 with a non-empty window inside
\* them, the Messages differing at the window.
C5_Witness ==
    /\ pc = "ops"
    /\ last.op = "mate"
    /\ last.start = 1
    /\ last.end = 2
    /\ Len(last.pre1) = 2
    /\ Len(last.pre2) = 3
    /\ last.pre1[2] # last.pre2[2]
    /\ last.pre1[1] # last.pre2[1]

Count(c, s) == Cardinality({i \in 1..Len(s) : s[i] = c})

\* C10: after mate_text on two Messages of equal length L both have length
\* L, and every symbol occurs in the pair as often as it did before (so the
\* total number of symbols is kept).
C10_EqualLengthKeepsSymbols ==
    (pc = "ops" /\ last.op = "mate" /\ Len(last.pre1) = Len(last.pre2)) =>
        /\ Len(heap[1].chars) = Len(last.pre1)
        /\ Len(heap[2].chars) = Len(last.pre1)
        /\ \A c \in VALID_CHARS :
              Count(c, heap[1].chars) + Count(c, heap[2].chars)
                  = Count(c, last.pre1) + Count(c, last.pre2)
        /\ Len(heap[1].chars) + Len(heap[2].chars)
              = Len(last.pre1) + Len(last.pre2)

\* A mating of two Messages of length 3 that differ in the window and in the
\* tail, with the window strictly inside.
C10_Witness ==
    /\ pc = "ops"
    /\ last.op = "mate"
    /\ Len(last.pre1) = 3
    /\ Len(last.pre2) = 3
    /\ last.start = 1
    /\ last.end = 2
    /\ last.pre1[2] # last.pre2[2]
    /\ last.pre1[3] # last.pre2[3]
    /\ last.pre1[1] = last.pre2[1]

\* C12 as stated: when the shorter of the two Messages is empty, mate_text
\* leaves both Messages as they were.
C12_EmptyLeavesUnchanged ==
    (pc = "ops" /\ last.op = "mate"
        /\ Min2(Len(last.pre1), Len(last.pre2)) = 0) =>
        /\ heap[1].chars = last.pre1
        /\ heap[2].chars = last.pre2

\* C12 as amended: when the shorter of the two Messages is empty, both
\* points are 0 and mate_text exchanges the whole contents: each Message
\* ends as what the other was.
C12_EmptyExchangesContents ==
    (pc = "ops" /\ last.op = "mate"
        /\ Min2(Len(last.pre1), Len(last.pre2)) = 0) =>
        /\ last.start = 0
        /\ last.end = 0
        /\ heap[1].chars = last.pre2
        /\ heap[2].chars = last.pre1

\* A mating of an empty Message with one of the greatest length.
C12_Witness ==
    /\ pc = "ops"
    /\ last.op = "mate"
    /\ last.pre1 = <<>>
    /\ Len(last.pre2) = MaxStrLen
    /\ heap[1].chars = last.pre2
    /\ heap[2].chars = <<>>

\* The list s with x put before position loc (0-based), position by position.
WithInserted(s, loc, x) ==
    [i \in 1..(Len(s) + 1) |->
        IF i <= loc THEN s[i] ELSE IF i = loc + 1 THEN x ELSE s[i - 1]]

\* The list s without position loc (0-based), position by position.
WithoutPosition(s, loc) ==
    [i \in 1..(Len(s) - 1) |-> IF i <= loc THEN s[i] ELSE s[i + 1]]

\* C18: one mutate_text call on a non-empty Message applies the steps that
\* fire in the order insertion, deletion, substitution.  Each step that fires
\* has an index in [0, len - 1] of the list as the step before left it and
\* is applied there; the final length is the old length, plus 1 if insertion
\* fired, minus 1 if deletion fired; substitution leaves the length and
\* every position but the chosen one as they were.
C18_MutateOrderAndLength ==
    (pc = "ops" /\ last.op = "mutate" /\ last.pre1 # <<>>) =>
        LET d == last.d
            s0 == last.pre1
            s1 == IF d.ins THEN WithInserted(s0, d.iloc, d.ich) ELSE s0
            s2 == IF d.del THEN WithoutPosition(s1, d.dloc) ELSE s1
            final == heap[last.r].chars
        IN  /\ d.ins => d.iloc \in 0..(Len(s0) - 1)
            /\ d.del => d.dloc \in 0..(Len(s1) - 1)
            /\ d.sub => d.sloc \in 0..(Len(s2) - 1)
            /\ Len(final) = Len(s0) + (IF d.ins THEN 1 ELSE 0)
                                    - (IF d.del THEN 1 ELSE 0)
            /\ Len(final) = Len(s2)
            /\ \A i \in 1..Len(s2) :
                  final[i] = IF d.sub /\ i = d.sloc + 1 THEN d.sch ELSE s2[i]

\* ------------------------------- mutate_text called with its probabilities
CfgInit ==
    /\ memo = EmptyMemo
    /\ pc = "cfg"
    /\ ncalls = 0
    /\ call = NoCall
    /\ \E c1 \in StringsUpTo(MaxGenomeLen) : heap = [r \in {1} |-> NewMessage(c1)]
    /\ last = NoOp
    /\ NoEngine

\* mutate_text(message, prob_ins, prob_del, prob_sub) on the Message r.  The
\* function starts with its first random.random() test:
\* nothing looks at the three values before.
CfgMutate(r, prob_ins, prob_del, prob_sub) ==
    /\ pc = "cfg"
    /\ \E d \in MutateDrawsWith(heap[r].chars, prob_ins, prob_del, prob_sub) :
          LET out == mutate_text(heap[r].chars, d)
          IN  /\ heap' = SetChars(heap, r, out.chars)
              /\ last' = [NoOp EXCEPT !.op = "mutate", !.r = r, !.d = d,
                                      !.probs = [ins |-> prob_ins,
                                                 del |-> prob_del,
                                                 sub |-> prob_sub],
                                      !.pre1 = heap[r].chars,
                                      !.fault = out.fault]
    /\ UNCHANGED <<memo, pc, ncalls, call>>
    /\ UNCHANGED eavars

CfgNext ==
    \E prob_ins \in Probabilities, prob_del \in Probabilities,
       prob_sub \in Probabilities :
        CfgMutate(1, prob_ins, prob_del, prob_sub)

SpecCfg == CfgInit /\ [][CfgNext]_vars

\* C17: a probability outside [0, 1] is rejected before any Message is
\* changed.  After a mutate_text call given such a prob_ins, prob_del or
\* prob_sub, the call has ended with an error and the Message is what it was
\* before the call.
C17_BadProbabilityRejected ==
    (pc = "cfg" /\ last.op = "mutate"
        /\ \E x \in {last.probs.ins, last.probs.del, last.probs.sub} :
              x < 0 \/ x > 100) =>
        /\ last.fault
        /\ heap[last.r].chars = last.pre1

\* ------------------------------------------------------- the evolution run
\* evolve_string(text): get_toolbox, toolbox.population(n=N), then
\* algorithms.eaSimple(pop, toolbox, cxpb, mutpb, ngen, stats).
Refs == 1..(2 * N)

Goals == [1..GoalLen -> VALID_CHARS]

\* The population sizes a run is made with: n=300 in the source, here the
\* largest size and the one below it, so that one is odd and one is even.
PopSizes == (N - 1)..N

\* Message(): initial_length = random.randint(min_length, max_length), then
\* that many random.choice(VALID_CHARS).
InitialTexts == UNION {[1..k -> RandomChars] : k \in RandInt(MinLength, MaxLength)}

Range(f) == {f[i] : i \in DOMAIN f}

\* The objects still referenced from a list.
Collect(h, refs) == [r \in (DOMAIN h) \cap refs |-> h[r]]

\* evaluate_text(message, goal_text) on memo m: the distance of the
\* Message's text to the goal, and the memo the scorer leaves.
evaluate_text(message, goal_text, m) ==
    levenshtein_distance(get_text(message), goal_text, m)

\* ind.fitness.values = fit
SetFitness(h, r, distance) ==
    [h EXCEPT ![r].valid = TRUE, ![r].values = distance,
              ![r].scored = h[r].chars]

\* for ind, fit in zip(invalid_ind, map(toolbox.evaluate, invalid_ind)):
\*     ind.fitness.values = fit
\* from position k of invalid_ind on, each evaluation on the memo the one
\* before left.
RECURSIVE EvaluateFrom(_, _, _, _, _)
EvaluateFrom(h, m, invalid_ind, k, goal_text) ==
    IF k > Len(invalid_ind) THEN [heap |-> h, memo |-> m]
    ELSE LET r == invalid_ind[k]
             e == evaluate_text(h[r], goal_text, m)
         IN  EvaluateFrom(SetFitness(h, r, e.res), e.memo, invalid_ind, k + 1,
                          goal_text)

\* invalid_ind = [ind for ind in individuals if not ind.fitness.valid]
InvalidInd(h, individuals) ==
    SelectSeq(individuals, LAMBDA r : ~h[r].valid)

RECURSIVE SumSeq(_)
SumSeq(s) == IF s = <<>> THEN 0 ELSE s[1] + SumSeq(Tail(s))

SeqMin(s) == CHOOSE x \in Range(s) : \A y \in Range(s) : x <= y
SeqMax(s) == CHOOSE x \in Range(s) : \A y \in Range(s) : x >= y

\* stats.compile(population) and logbook.record(gen=, nevals=, **record).
\* numpy.mean is held as the exact fraction <<sum, n>>, numpy.std as the
\* fraction <<n * sum of squares - sum^2, n^2>> whose square root it is.
StatRecord(g, ne, values) ==
    LET n == Len(values)
        sum == SumSeq(values)
        sumsq == SumSeq([i \in 1..n |-> values[i] * values[i]])
    IN  [gen |-> g, nevals |-> ne, avg |-> <<sum, n>>,
         std |-> <<n * sumsq - sum * sum, n * n>>,
         min |-> SeqMin(values), max |-> SeqMax(values)]

\* The winner under a fitness that is maximized (weights = (1.0,)): the
\* first aspirant of greatest distance.
Winner_maximizing(h, aspirants_) ==
    LET best == CHOOSE i \in 1..Len(aspirants_) :
                  /\ \A j \in 1..Len(aspirants_) :
                        h[aspirants_[i]].values >= h[aspirants_[j]].values
                  /\ \A j \in 1..(i - 1) :
                        h[aspirants_[j]].values < h[aspirants_[i]].values
    IN  aspirants_[best]

\* max(aspirants, key=attrgetter("fitness")) for FitnessMinimizeSingle
\* (weights = (-1.0,)): the first aspirant no other aspirant beats, that is
\* the first of lowest distance.
Winner(h, aspirants_) ==
    LET best == CHOOSE i \in 1..Len(aspirants_) :
                  /\ \A j \in 1..Len(aspirants_) :
                        h[aspirants_[i]].values <= h[aspirants_[j]].values
                  /\ \A j \in 1..(i - 1) :
                        h[aspirants_[j]].values > h[aspirants_[i]].values
    IN  aspirants_[best]

\* A selTournament that runs one tournament fewer than it was asked for.
selTournament_one_short(h, individuals, picks) ==
    [slot \in (DOMAIN picks) \ {Len(picks)} |->
        Winner(h, [t \in 1..TOURNSIZE |-> individuals[picks[slot][t]]])]

\* tools.selTournament(individuals, k, tournsize) under the draws
\* picks[slot][t]: the t-th random.choice(individuals) of the slot.
selTournament(h, individuals, picks) ==
    [slot \in DOMAIN picks |->
        Winner(h, [t \in 1..TOURNSIZE |-> individuals[picks[slot][t]]])]

\* The k-th smallest element of a finite set of numbers.
RECURSIVE KthSmallest(_, _)
KthSmallest(S, k) ==
    LET least == CHOOSE x \in S : \A y \in S : x <= y
    IN  IF k = 1 THEN least ELSE KthSmallest(S \ {least}, k - 1)

\* A varAnd that works on the selected individuals themselves.
clone_alias(h, individuals) == [heap |-> h, refs |-> individuals]

\* varAnd's offspring = [toolbox.clone(ind) for ind in population], clone
\* being deepcopy: one new object per list position, with the characters and
\* the fitness of the object it copies.
clone(h, individuals) ==
    LET free == Refs \ DOMAIN h
        fresh == [i \in DOMAIN individuals |-> KthSmallest(free, i)]
    IN  [heap |-> [r \in (DOMAIN h) \cup Range(fresh) |->
                      IF r \in Range(fresh)
                      THEN h[individuals[CHOOSE i \in DOMAIN fresh : fresh[i] = r]]
                      ELSE h[r]],
         refs |-> fresh]

EaInit ==
    /\ memo = EmptyMemo
    /\ pc = "start"
    /\ ncalls = 0
    /\ call = NoCall
    /\ heap = EmptyHeap
    /\ last = NoOp
    /\ goal \in Goals
    /\ pop = <<>>
    /\ off = <<>>
    /\ aspirants = <<>>
    /\ sel = <<>>
    /\ gen = 0
    /\ idx = 0
    /\ nevals = 0
    /\ logbook = <<>>
    /\ run = 1
    /\ hist = <<>>
    /\ log1 = <<>>

\* pop = toolbox.population(n=N)
Populate ==
    /\ pc = "start"
    /\ \E n \in PopSizes :
          /\ \E texts \in [1..n -> InitialTexts] :
                heap' = [r \in 1..n |-> NewMessage(texts[r])]
          /\ pop' = [i \in 1..n |-> i]
    /\ pc' = "evaluate"
    /\ UNCHANGED <<aspirants, sel, memo, ncalls, call, last, goal, off, gen, idx, nevals, logbook,
                   run, hist, log1>>

\* Evaluate the individuals with an invalid fitness: of the population
\* before the loop, of the offspring inside it.
Evaluate ==
    /\ pc = "evaluate"
    /\ LET individuals == IF gen = 0 THEN pop ELSE off
           invalid_ind == InvalidInd(heap, individuals)
           e == EvaluateFrom(heap, memo, invalid_ind, 1, goal)
       IN  /\ heap' = e.heap
           /\ memo' = e.memo
           /\ nevals' = Len(invalid_ind)
    /\ pc' = IF gen = 0 THEN "record" ELSE "replace"
    /\ UNCHANGED <<aspirants, sel, ncalls, call, last, goal, pop, off, gen, idx, logbook, run,
                   log1>>

\* population[:] = offspring
Replace ==
    /\ pc = "replace"
    /\ pop' = off
    /\ heap' = Collect(heap, Range(off))
    /\ pc' = "record"
    /\ UNCHANGED <<aspirants, sel, memo, ncalls, call, last, goal, off, gen, idx, nevals, logbook,
                   run, hist, log1>>

\* A logbook that holds only the newest record.
Record_Overwrite ==
    /\ pc = "record"
    /\ logbook' = <<StatRecord(gen, nevals,
                               [i \in DOMAIN pop |-> heap[pop[i]].values])>>
    /\ nevals' = 0
    /\ pc' = IF gen < NGEN THEN "select" ELSE "done"
    /\ UNCHANGED <<aspirants, sel, memo, ncalls, call, heap, last, goal, pop, off,
                   gen, idx, run, hist, log1>>

\* record = stats.compile(population); logbook.record(...); then the next
\* round of `for gen in range(1, ngen + 1)`, or the return after the last.
Record ==
    /\ pc = "record"
    /\ logbook' = Append(logbook,
                         StatRecord(gen, nevals,
                                    [i \in DOMAIN pop |-> heap[pop[i]].values]))
    /\ nevals' = 0
    /\ pc' = IF gen < NGEN THEN "select" ELSE "done"
    /\ UNCHANGED <<aspirants, sel, memo, ncalls, call, heap, last, goal, pop, off, gen, idx,
                   run, hist, log1>>

\* offspring = toolbox.select(population, len(population))
Select ==
    /\ pc = "select"
    /\ run = 1
    /\ gen' = gen + 1
    /\ \E picks \in [1..Len(pop) -> [1..TOURNSIZE -> 1..Len(pop)]] :
          /\ off' = selTournament(heap, pop, picks)
          /\ aspirants' = [slot \in DOMAIN picks |->
                              [t \in 1..TOURNSIZE |-> pop[picks[slot][t]]]]
    /\ pc' = "clone"
    /\ UNCHANGED <<sel, memo, ncalls, call, heap, last, goal, pop, idx, nevals, logbook,
                   run, hist, log1>>

\* varAnd: offspring = [toolbox.clone(ind) for ind in population]
VarAndClone ==
    /\ pc = "clone"
    /\ LET c == clone(heap, off)
       IN  /\ heap' = c.heap
           /\ off' = c.refs
    /\ sel' = off
    /\ aspirants' = <<>>
    /\ pc' = IF Len(off) >= 2 THEN "mate" ELSE "mutate"
    /\ idx' = 1
    /\ UNCHANGED <<memo, ncalls, call, last, goal, pop, gen, nevals, logbook,
                   run, hist, log1>>

\* varAnd, one round of `for i in range(1, len(offspring), 2)` on the pair
\* offspring[i - 1], offspring[i]: with probability cxpb, toolbox.mate and
\* del of both fitness values.
MatePair ==
    /\ pc = "mate"
    /\ \/ UNCHANGED heap
       \/ \E start_point \in RandInt(0, smallest_len(heap, off[idx], off[idx + 1])) :
          \E end_point \in RandInt(start_point,
                                   smallest_len(heap, off[idx], off[idx + 1])) :
             heap' = DelFitness(
                        DelFitness(mate_text(heap, off[idx], off[idx + 1],
                                             start_point, end_point), off[idx]),
                        off[idx + 1])
    /\ IF idx + 3 <= Len(off)
       THEN pc' = "mate" /\ idx' = idx + 2
       ELSE pc' = "mutate" /\ idx' = 1
    /\ UNCHANGED <<aspirants, sel, memo, ncalls, call, last, goal, pop, off, gen, nevals, logbook,
                   run, hist, log1>>

\* varAnd, one round of `for i in range(len(offspring))`: with probability
\* mutpb, toolbox.mutate and del of the fitness values.  A ValueError raised
\* by mutate_text leaves evolve_string.
MutateInd ==
    /\ pc = "mutate"
    /\ \/ /\ UNCHANGED heap
          /\ IF idx + 1 <= Len(off)
             THEN pc' = "mutate" /\ idx' = idx + 1 /\ UNCHANGED sel
             ELSE pc' = "evaluate" /\ idx' = 0 /\ sel' = <<>>
       \/ \E d \in MutateDraws(heap[off[idx]].chars) :
             LET out == mutate_text(heap[off[idx]].chars, d)
             IN  IF out.fault
                 THEN /\ heap' = SetChars(heap, off[idx], out.chars)
                      /\ pc' = "raised"
                      /\ UNCHANGED <<idx, sel>>
                 ELSE /\ heap' = DelFitness(SetChars(heap, off[idx], out.chars),
                                            off[idx])
                      /\ IF idx + 1 <= Len(off)
                         THEN pc' = "mutate" /\ idx' = idx + 1 /\ UNCHANGED sel
                         ELSE pc' = "evaluate" /\ idx' = 0 /\ sel' = <<>>
    /\ UNCHANGED <<memo, ncalls, call, last, goal, pop, off, aspirants, gen, nevals,
                   logbook, run, hist, log1>>

\* One call of evolve_string.
EvaluateOnce == Evaluate /\ UNCHANGED hist

Next ==
    \/ Populate
    \/ EvaluateOnce
    \/ Replace
    \/ Record
    \/ Select
    \/ VarAndClone
    \/ MatePair
    \/ MutateInd

Spec == EaInit /\ [][Next]_vars

\* C4: in every state of a run, every symbol of every Message belongs to
\* VALID_CHARS.
C4_SymbolsInAlphabet ==
    \A r \in DOMAIN heap : Range(heap[r].chars) \subseteq VALID_CHARS

\* A finished run whose population holds a Message that an insertion made
\* longer than any new Message, and one that lost all its characters.
C4_Witness ==
    /\ pc = "done"
    /\ \E r \in Range(pop) : Len(heap[r].chars) > MaxLength
    /\ \E r \in Range(pop) : Len(heap[r].chars) < MinLength

\* C7: when a statistics record is about to be made, every Message of the
\* population has a valid fitness, computed from the characters it has now;
\* at generation 0 every Message has just been evaluated.
C7_FitnessCurrentAtRecord ==
    pc = "record" =>
        /\ \A i \in DOMAIN pop :
              /\ heap[pop[i]].valid
              /\ heap[pop[i]].scored = heap[pop[i]].chars
        /\ gen = 0 => nevals = Len(pop)

\* The record of a later generation in which one Message was re-evaluated
\* after variation and another carries the fitness it was cloned with.
C7_Witness ==
    /\ pc = "record"
    /\ gen = NGEN
    /\ nevals = 1
    /\ Len(pop) = 2
    /\ heap[pop[1]].chars # heap[pop[2]].chars

\* C8: a run ends only by reaching the generation count: it never ends by an
\* exception of an operator, it is at generation ngen when it returns, and it
\* never starts a round beyond ngen.
C8_EndsOnlyAtNgen ==
    /\ pc # "raised"
    /\ pc = "done" => gen = NGEN
    /\ gen <= NGEN

\* C9: the offspring are independent copies.  While varAnd mates and mutates,
\* the offspring are objects of their own (no two list positions hold the
\* same object, none is an object of the population or of the selected
\* list), and a step on one offspring (or one pair) changes no other
\* offspring, no selected individual and no individual of the population.
C9_OffspringIndependent ==
    [][(pc \in {"mate", "mutate"}) =>
          LET touched == IF pc = "mate" THEN {idx, idx + 1} ELSE {idx}
          IN  /\ \A i, j \in DOMAIN off : i # j => off[i] # off[j]
              /\ Range(off) \cap (Range(pop) \cup Range(sel)) = {}
              /\ \A j \in (DOMAIN off) \ touched :
                    heap'[off[j]] = heap[off[j]]
              /\ \A k \in DOMAIN sel : heap'[sel[k]] = heap[sel[k]]
              /\ \A k \in DOMAIN pop : heap'[pop[k]] = heap[pop[k]]]_vars

\* The same individual won both tournaments, the first offspring has been
\* changed by variation and the second is still what its parent is.
C9_Witness ==
    /\ pc = "mutate"
    /\ idx = 2
    /\ sel[1] = sel[2]
    /\ heap[off[1]].chars # heap[sel[1]].chars
    /\ heap[off[2]].chars = heap[sel[2]].chars

\* C13: the population has the same number of Messages at every generation.
\* From its creation on the length of the population never changes (for the
\* odd and for the even size), and the offspring that selection yields and
\* that is cloned, varied, evaluated and put in the population's place has
\* the population's length.
C13_PopulationSizeConstant ==
    /\ [](pc # "start" =>
            /\ Len(pop) \in PopSizes
            /\ (pc \in {"clone", "mate", "mutate", "replace", "raised"}
                   \/ (pc = "evaluate" /\ gen > 0)) => Len(off) = Len(pop))
    /\ [][pc # "start" => Len(pop') = Len(pop)]_vars

\* The last generation's offspring has replaced a population of the largest
\* size, all of it re-evaluated after variation, one Message longer and one
\* shorter than any initial Message.
C13_Witness ==
    /\ pc = "record"
    /\ gen = NGEN
    /\ Len(pop) = N
    /\ nevals = N
    /\ \E r \in Range(pop) : Len(heap[r].chars) > MaxLength
    /\ \E r \in Range(pop) : Len(heap[r].chars) < MinLength

\* C14: the statistics log is append-only, one record per generation.  The
\* records carry the generation indices 0, 1, ... in order; the record of a
\* generation is there once that generation is evaluated and before its
\* selection; a step either leaves the log alone or appends to it the record
\* of the current generation, the population fully evaluated; a run that
\* returns holds ngen + 1 records.
C14_LogAppendOnly ==
    /\ [](/\ \A i \in DOMAIN logbook : logbook[i].gen = i - 1
          /\ pc \in {"select", "done"} => Len(logbook) = gen + 1
          /\ pc \in {"start", "evaluate", "replace", "record", "clone", "mate",
                      "mutate", "raised"} => Len(logbook) = gen
          /\ pc = "done" => Len(logbook) = NGEN + 1)
    /\ [][\/ logbook' = logbook
          \/ /\ pc = "record"
             /\ pc' \in {"select", "done"}
             /\ Len(logbook') = Len(logbook) + 1
             /\ Front(logbook') = logbook
             /\ Last(logbook').gen = gen
             /\ \A i \in DOMAIN pop : heap[pop[i]].valid]_vars

\* A returned run whose log holds different statistics for the first and
\* for the last generation.
C14_Witness ==
    /\ pc = "done"
    /\ Len(logbook) = NGEN + 1
    /\ logbook[1].min # logbook[NGEN + 1].min
    /\ logbook[1].nevals # logbook[NGEN + 1].nevals

\* C16: each slot of a selection is filled by a tournament of three.  Right
\* after toolbox.select, there are as many winners as the population has
\* Messages; each slot's three aspirants are Messages of the population, all
\* scored; the slot's winner is one of its aspirants, no aspirant has a
\* lower distance, and every aspirant drawn before it has a higher one.
C16_TournamentOfThree ==
    pc = "clone" =>
        /\ Len(off) = Len(pop)
        /\ DOMAIN aspirants = DOMAIN off
        /\ \A r \in Range(pop) : heap[r].valid /\ heap[r].scored = heap[r].chars
        /\ \A slot \in DOMAIN off :
              /\ DOMAIN aspirants[slot] = 1..3
              /\ Range(aspirants[slot]) \subseteq Range(pop)
              /\ \E t \in 1..3 :
                    /\ aspirants[slot][t] = off[slot]
                    /\ \A u \in 1..3 :
                          heap[aspirants[slot][u]].values
                              >= heap[off[slot]].values
                    /\ \A u \in 1..(t - 1) :
                          heap[aspirants[slot][u]].values
                              > heap[off[slot]].values

\* A selection among two Messages of equal distance: each tournament drew
\* one of them twice (with replacement) and was won by the Message drawn
\* first, a different Message in the two tournaments.
C16_Witness ==
    /\ pc = "clone"
    /\ Len(pop) = 2
    /\ heap[pop[1]].values = heap[pop[2]].values
    /\ aspirants[1] = <<pop[1], pop[2], pop[2]>>
    /\ off[1] = pop[1]
    /\ aspirants[2] = <<pop[2], pop[1], pop[2]>>
    /\ off[2] = pop[2]

\* ------------------------------------------- evolve_string called twice
\* The process calls evolve_string(text) a second time with the same text.
\* random.seed(4) restarts the same stream of draws, and `memo` is a module
\* global: it keeps what the first call left.  The first call records, at
\* each evaluation, the individuals it evaluates and what they are after it.
\* In the second call the draws are the first call's: as long as its
\* population is what the first call's was at the same point, selection and
\* variation (functions of the population and the draws) yield the
\* offspring they yielded in the first call.
Snapshot(h, individuals) == [i \in DOMAIN individuals |-> h[individuals[i]]]

EvaluateLogged ==
    /\ Evaluate
    /\ hist' = IF run = 1
               THEN Append(hist,
                      [before |-> Snapshot(heap, IF gen = 0 THEN pop ELSE off),
                       after |-> Snapshot(heap', IF gen = 0 THEN pop ELSE off)])
               ELSE hist

\* The second call: random.seed(4) and toolbox.population(n=N) create the
\* Messages the first call created.
Restart ==
    /\ pc = "done"
    /\ run = 1
    /\ run' = 2
    /\ log1' = logbook
    /\ logbook' = <<>>
    /\ heap' = [r \in 1..Len(pop) |-> NewMessage(hist[1].before[r].chars)]
    /\ pop' = [i \in 1..Len(pop) |-> i]
    /\ off' = <<>>
    /\ gen' = 0
    /\ idx' = 0
    /\ nevals' = 0
    /\ pc' = "evaluate"
    /\ UNCHANGED <<aspirants, sel, memo, ncalls, call, last, goal, hist>>

\* The second call's selection and variation for one generation, under the
\* first call's draws.  When the population differs from the first call's
\* (some distance came out different) the draws act on other individuals and
\* the second call is not followed further.
SameDraws ==
    /\ pc = "select"
    /\ run = 2
    /\ gen' = gen + 1
    /\ IF Snapshot(heap, pop) = hist[gen + 1].after
       THEN LET c == clone(heap, pop)
            IN  /\ off' = c.refs
                /\ heap' = [r \in DOMAIN c.heap |->
                              IF r \in Range(c.refs)
                              THEN hist[gen + 2].before[
                                     CHOOSE i \in DOMAIN c.refs : c.refs[i] = r]
                              ELSE c.heap[r]]
                /\ pc' = "evaluate"
       ELSE /\ pc' = "diverged"
            /\ UNCHANGED <<heap, off>>
    /\ UNCHANGED <<aspirants, sel, memo, ncalls, call, last, goal, pop, idx, nevals, logbook,
                   run, hist, log1>>

NextTwice ==
    \/ Populate
    \/ EvaluateLogged
    \/ Replace
    \/ Record
    \/ Select
    \/ VarAndClone
    \/ MatePair
    \/ MutateInd
    \/ Restart
    \/ SameDraws

SpecTwice == EaInit /\ [][NextTwice]_vars

\* C3: a second call of evolve_string with the same goal, the same seed and
\* the same configuration, made in the same process, returns the statistics
\* log the first call returned.
C3_SameSeedSameLog == (run = 2 /\ pc = "done") => logbook = log1

====
